---- MODULE Spec2Model ----
(***************************************************************************)
(* State-machine model of repair_conda.py: one invocation of main() is a   *)
(* straight line of steps (parse, diagnostics, cookiecutter lookup,        *)
(* precondition check, no-op check, dry-run check, create_junction), run   *)
(* against a filesystem that other processes may change between any two    *)
(* steps.  Several invocations follow one another on the same filesystem.  *)
(***************************************************************************)
EXTENDS Integers, Sequences, FiniteSets, TLC

\* ---- bounds --------------------------------------------------------------
MaxRuns == 3        \* invocations of main() in one behaviour
MaxEnv == 2         \* filesystem changes made by other processes

\* ---- value sets ----------------------------------------------------------
NoExit == -1        \* the process has not exited yet
BrokenEntries == {"absent", "junction", "dir", "file"}
ActualEntries == {"absent", "dir", "file"}
ArgvForms == {"ok", "bad", "help"}
NoTwin == [set |-> FALSE, cookie |-> "", exit |-> NoExit, created |-> FALSE,
           rc |-> NoExit, brokenEnd |-> "absent"]
Branches == {"none", "usage", "help", "missing", "noop", "dryrun", "apply"}

VARIABLES
    brokenEntry,   \* what sits at Expected Path (--broken-root); "junction" is a junction to Actual Path
    actualEntry,   \* what sits at Actual Path (--actual-root)
    argvForm,      \* command line: accepted by argparse, rejected, or -h
    apply,         \* args.apply
    pc,            \* position of the running invocation
    exitStatus,    \* process exit status, NoExit while running
    brokenDesc,    \* path_exists_description(broken) as logged
    actualDesc,    \* path_exists_description(actual) as logged
    cookie,        \* value returned by get_cookiecutter_path()
    branch,        \* branch of main's decision tree taken (the log line it printed)
    linkExisted,   \* create_junction found link.exists() and returned False
    ok,            \* value returned by create_junction
    mklinkRc,      \* returncode of the mklink command, NoExit if not run
    mklinkIssued,  \* number of times this invocation ran mklink
    created,       \* this invocation created the junction
    runs,          \* invocations started so far
    envSteps,      \* filesystem changes by other processes so far
    repairedRun,   \* invocation that last created the junction, 0 if none
    aliasIntact,   \* no other process changed the filesystem since that creation
    fs0,           \* the filesystem as the first invocation found it
    twin           \* outcome of the first of two invocations run on the same filesystem

fs == <<brokenEntry, actualEntry>>
locals == <<brokenDesc, actualDesc, cookie, branch, linkExisted, ok, mklinkRc, mklinkIssued, created>>
hist == <<repairedRun, aliasIntact>>
twinv == <<fs0, twin>>
vars == <<brokenEntry, actualEntry, argvForm, apply, pc, exitStatus, brokenDesc,
          actualDesc, cookie, branch, linkExisted, ok, mklinkRc, mklinkIssued,
          created, runs, envSteps, repairedRun, aliasIntact, fs0, twin>>

\* ---- pathlib ------------------------------------------------------------
\* Path.exists() follows links: a junction exists iff its target does.
BrokenExists(b, a) ==
    CASE b = "absent" -> FALSE
      [] b = "junction" -> a # "absent"
      [] OTHER -> TRUE

ActualExists(a) == a # "absent"

\* Path.is_dir() follows links as well.
BrokenIsDir(b, a) ==
    CASE b = "junction" -> a = "dir"
      [] b = "dir" -> TRUE
      [] OTHER -> FALSE

\* path_exists_description
path_exists_description(exists, isDir) ==
    IF exists
    THEN (IF isDir THEN "exists (junction)" ELSE "exists (file/dir)")
    ELSE "missing"

\* ---- main ----------------------------------------------------------------
Exit(status, br) ==
    /\ pc' = "done"
    /\ exitStatus' = status
    /\ branch' = br

\* parser.parse_args(): a rejected command line exits 2, -h exits 0
ParseArgs ==
    /\ pc = "parse"
    /\ CASE argvForm = "bad" -> Exit(2, "usage")
         [] argvForm = "help" -> Exit(0, "help")
         [] OTHER -> pc' = "diag" /\ UNCHANGED <<exitStatus, branch>>
    /\ UNCHANGED <<fs, argvForm, apply, brokenDesc, actualDesc, cookie, linkExisted,
                   ok, mklinkRc, mklinkIssued, created, runs, envSteps, hist>>
    /\ UNCHANGED twinv

\* the two "[...]" diagnostics lines
Diagnostics ==
    /\ pc = "diag"
    /\ brokenDesc' = path_exists_description(BrokenExists(brokenEntry, actualEntry),
                                             BrokenIsDir(brokenEntry, actualEntry))
    /\ actualDesc' = path_exists_description(ActualExists(actualEntry), actualEntry = "dir")
    /\ pc' = "lookup"
    /\ UNCHANGED <<fs, argvForm, apply, exitStatus, cookie, branch, linkExisted, ok,
                   mklinkRc, mklinkIssued, created, runs, envSteps, hist>>
    /\ UNCHANGED twinv

\* faulty variant: a failed lookup is treated as fatal
get_cookiecutter_path_Fatal ==
    /\ pc = "lookup"
    /\ \E rc \in {0, 1} :
        IF rc = 0
        THEN cookie' = "path" /\ pc' = "precheck" /\ UNCHANGED <<exitStatus, branch>>
        ELSE cookie' = "not found" /\ Exit(1, "missing")
    /\ UNCHANGED <<fs, argvForm, apply, brokenDesc, actualDesc,
                   linkExisted, ok, mklinkRc, mklinkIssued, created, runs, envSteps, hist>>
    /\ UNCHANGED twinv

\* cookie = get_cookiecutter_path(): "where cookiecutter" returns 0 or not
get_cookiecutter_path ==
    /\ pc = "lookup"
    /\ \E rc \in {0, 1} : cookie' = IF rc = 0 THEN "path" ELSE "not found"
    /\ pc' = "precheck"
    /\ UNCHANGED <<fs, argvForm, apply, exitStatus, brokenDesc, actualDesc, branch,
                   linkExisted, ok, mklinkRc, mklinkIssued, created, runs, envSteps, hist>>
    /\ UNCHANGED twinv

\* faulty variant: the error is logged but the process does not exit
PreconditionCheck_Continues ==
    /\ pc = "precheck"
    /\ pc' = "noop"
    /\ UNCHANGED <<exitStatus, branch>>
    /\ UNCHANGED <<fs, argvForm, apply, brokenDesc, actualDesc, cookie, linkExisted,
                   ok, mklinkRc, mklinkIssued, created, runs, envSteps, hist>>
    /\ UNCHANGED twinv

\* faulty variant: a plain return instead of sys.exit(1)
PreconditionCheck_Returns ==
    /\ pc = "precheck"
    /\ IF ~ActualExists(actualEntry)
       THEN Exit(0, "missing")
       ELSE pc' = "noop" /\ UNCHANGED <<exitStatus, branch>>
    /\ UNCHANGED <<fs, argvForm, apply, brokenDesc, actualDesc, cookie, linkExisted,
                   ok, mklinkRc, mklinkIssued, created, runs, envSteps, hist>>
    /\ UNCHANGED twinv

\* if not actual.exists(): sys.exit(1)
PreconditionCheck ==
    /\ pc = "precheck"
    /\ IF ~ActualExists(actualEntry)
       THEN Exit(1, "missing")
       ELSE pc' = "noop" /\ UNCHANGED <<exitStatus, branch>>
    /\ UNCHANGED <<fs, argvForm, apply, brokenDesc, actualDesc, cookie, linkExisted,
                   ok, mklinkRc, mklinkIssued, created, runs, envSteps, hist>>
    /\ UNCHANGED twinv

\* faulty variant: the early return is missing
NoOpCheck_FallsThrough ==
    /\ pc = "noop"
    /\ pc' = "dryrun"
    /\ UNCHANGED <<exitStatus, branch>>
    /\ UNCHANGED <<fs, argvForm, apply, brokenDesc, actualDesc, cookie, linkExisted,
                   ok, mklinkRc, mklinkIssued, created, runs, envSteps, hist>>
    /\ UNCHANGED twinv

\* faulty variant: the early return is taken in dry-run mode only
NoOpCheck_OnlyDryRun ==
    /\ pc = "noop"
    /\ IF BrokenExists(brokenEntry, actualEntry) /\ ~apply
       THEN Exit(0, "noop")
       ELSE pc' = "dryrun" /\ UNCHANGED <<exitStatus, branch>>
    /\ UNCHANGED <<fs, argvForm, apply, brokenDesc, actualDesc, cookie, linkExisted,
                   ok, mklinkRc, mklinkIssued, created, runs, envSteps, hist>>
    /\ UNCHANGED twinv

\* if broken.exists(): return
NoOpCheck ==
    /\ pc = "noop"
    /\ IF BrokenExists(brokenEntry, actualEntry)
       THEN Exit(0, "noop")
       ELSE pc' = "dryrun" /\ UNCHANGED <<exitStatus, branch>>
    /\ UNCHANGED <<fs, argvForm, apply, brokenDesc, actualDesc, cookie, linkExisted,
                   ok, mklinkRc, mklinkIssued, created, runs, envSteps, hist>>
    /\ UNCHANGED twinv

\* faulty variant: the apply flag is not consulted
DryRunCheck_IgnoresFlag ==
    /\ pc = "dryrun"
    /\ pc' = "cj_check" /\ branch' = "apply" /\ UNCHANGED exitStatus
    /\ UNCHANGED <<fs, argvForm, apply, brokenDesc, actualDesc, cookie, linkExisted,
                   ok, mklinkRc, mklinkIssued, created, runs, envSteps, hist>>
    /\ UNCHANGED twinv

\* if not args.apply: return
DryRunCheck ==
    /\ pc = "dryrun"
    /\ IF ~apply
       THEN Exit(0, "dryrun")
       ELSE pc' = "cj_check" /\ branch' = "apply" /\ UNCHANGED exitStatus
    /\ UNCHANGED <<fs, argvForm, apply, brokenDesc, actualDesc, cookie, linkExisted,
                   ok, mklinkRc, mklinkIssued, created, runs, envSteps, hist>>
    /\ UNCHANGED twinv

\* faulty variant: create_junction without its own existence check
CreateJunctionCheck_NoCheck ==
    /\ pc = "cj_check"
    /\ pc' = "mklink"
    /\ UNCHANGED <<linkExisted, ok>>
    /\ UNCHANGED <<fs, argvForm, apply, exitStatus, brokenDesc, actualDesc, cookie,
                   branch, mklinkRc, mklinkIssued, created, runs, envSteps, hist>>
    /\ UNCHANGED twinv

\* create_junction: if link.exists(): return False
CreateJunctionCheck ==
    /\ pc = "cj_check"
    /\ IF BrokenExists(brokenEntry, actualEntry)
       THEN linkExisted' = TRUE /\ ok' = FALSE /\ pc' = "cj_ret"
       ELSE pc' = "mklink" /\ UNCHANGED <<linkExisted, ok>>
    /\ UNCHANGED <<fs, argvForm, apply, exitStatus, brokenDesc, actualDesc, cookie,
                   branch, mklinkRc, mklinkIssued, created, runs, envSteps, hist>>
    /\ UNCHANGED twinv

\* faulty variant: the returncode test is inverted
Mklink_WrongRc ==
    /\ pc = "mklink"
    /\ mklinkIssued' = mklinkIssued + 1
    /\ \E rc \in {0, 1} :
        /\ rc = 0 => brokenEntry = "absent"
        /\ mklinkRc' = rc
        /\ ok' = (rc # 0)
        /\ IF rc = 0
           THEN /\ brokenEntry' = "junction"
                /\ created' = TRUE
                /\ repairedRun' = runs
                /\ aliasIntact' = TRUE
           ELSE UNCHANGED <<brokenEntry, created, hist>>
    /\ pc' = "cj_ret"
    /\ UNCHANGED <<actualEntry, argvForm, apply, exitStatus, brokenDesc, actualDesc,
                   cookie, branch, linkExisted, runs, envSteps>>
    /\ UNCHANGED twinv

\* create_junction: run mklink /J link target; True iff returncode == 0.
\* The OS creates the junction only where nothing sits at the link path,
\* and may reject the command for any other reason (privilege, ...).
Mklink ==
    /\ pc = "mklink"
    /\ mklinkIssued' = mklinkIssued + 1
    /\ \E rc \in {0, 1} :
        /\ rc = 0 => brokenEntry = "absent"
        /\ mklinkRc' = rc
        /\ ok' = (rc = 0)
        /\ IF rc = 0
           THEN /\ brokenEntry' = "junction"
                /\ created' = TRUE
                /\ repairedRun' = runs
                /\ aliasIntact' = TRUE
           ELSE UNCHANGED <<brokenEntry, created, hist>>
    /\ pc' = "cj_ret"
    /\ UNCHANGED <<actualEntry, argvForm, apply, exitStatus, brokenDesc, actualDesc,
                   cookie, branch, linkExisted, runs, envSteps>>
    /\ UNCHANGED twinv

\* faulty variant: the result of create_junction is ignored
CheckOk_IgnoresFailure ==
    /\ pc = "cj_ret"
    /\ Exit(0, "apply")
    /\ UNCHANGED <<fs, argvForm, apply, brokenDesc, actualDesc, cookie, linkExisted,
                   ok, mklinkRc, mklinkIssued, created, runs, envSteps, hist>>
    /\ UNCHANGED twinv

\* faulty variant: a failed create_junction is tried once more
CheckOk_Retries ==
    /\ pc = "cj_ret"
    /\ IF ok
       THEN Exit(0, "apply")
       ELSE IF mklinkIssued < 2
            THEN pc' = "cj_check" /\ UNCHANGED <<exitStatus, branch>>
            ELSE Exit(1, "apply")
    /\ UNCHANGED <<fs, argvForm, apply, brokenDesc, actualDesc, cookie, linkExisted,
                   ok, mklinkRc, mklinkIssued, created, runs, envSteps, hist>>
    /\ UNCHANGED twinv

\* ok = create_junction(...); if not ok: sys.exit(1); else fall off the end
CheckOk ==
    /\ pc = "cj_ret"
    /\ IF ~ok THEN Exit(1, "apply") ELSE Exit(0, "apply")
    /\ UNCHANGED <<fs, argvForm, apply, brokenDesc, actualDesc, cookie, linkExisted,
                   ok, mklinkRc, mklinkIssued, created, runs, envSteps, hist>>
    /\ UNCHANGED twinv

\* the operator runs the script again
Invoke ==
    /\ pc = "done"
    /\ runs < MaxRuns
    /\ runs' = runs + 1
    /\ argvForm' \in ArgvForms
    /\ apply' \in BOOLEAN
    /\ pc' = "parse"
    /\ exitStatus' = NoExit
    /\ brokenDesc' = "" /\ actualDesc' = "" /\ cookie' = ""
    /\ branch' = "none"
    /\ linkExisted' = FALSE /\ ok' = FALSE
    /\ mklinkRc' = NoExit /\ mklinkIssued' = 0 /\ created' = FALSE
    /\ UNCHANGED <<fs, envSteps, hist>>
    /\ UNCHANGED twinv

\* the same command line is run a second time on a filesystem identical to
\* the one the first invocation started on; only the lookup may differ
InvokeTwin ==
    /\ pc = "done"
    /\ ~twin.set
    /\ envSteps = 0
    /\ twin' = [set |-> TRUE, cookie |-> cookie, exit |-> exitStatus,
                created |-> created, rc |-> mklinkRc, brokenEnd |-> brokenEntry]
    /\ brokenEntry' = fs0[1]
    /\ actualEntry' = fs0[2]
    /\ runs' = runs + 1
    /\ pc' = "parse"
    /\ exitStatus' = NoExit
    /\ brokenDesc' = "" /\ actualDesc' = "" /\ cookie' = ""
    /\ branch' = "none"
    /\ linkExisted' = FALSE /\ ok' = FALSE
    /\ mklinkRc' = NoExit /\ mklinkIssued' = 0 /\ created' = FALSE
    /\ UNCHANGED <<argvForm, apply, envSteps, hist, fs0>>

\* ---- other processes ----------------------------------------------------
EnvChangeExpected ==
    /\ envSteps < MaxEnv
    /\ envSteps' = envSteps + 1
    /\ brokenEntry' \in BrokenEntries \ {brokenEntry}
    /\ aliasIntact' = FALSE
    /\ UNCHANGED <<actualEntry, argvForm, apply, pc, exitStatus, locals, runs, repairedRun>>
    /\ UNCHANGED twinv

EnvChangeActual ==
    /\ envSteps < MaxEnv
    /\ envSteps' = envSteps + 1
    /\ actualEntry' \in ActualEntries \ {actualEntry}
    /\ aliasIntact' = FALSE
    /\ UNCHANGED <<brokenEntry, argvForm, apply, pc, exitStatus, locals, runs, repairedRun>>
    /\ UNCHANGED twinv

\* ---- specification ------------------------------------------------------
Init ==
    /\ brokenEntry \in BrokenEntries
    /\ actualEntry \in ActualEntries
    /\ argvForm \in ArgvForms
    /\ apply \in BOOLEAN
    /\ pc = "parse"
    /\ exitStatus = NoExit
    /\ brokenDesc = "" /\ actualDesc = "" /\ cookie = ""
    /\ branch = "none"
    /\ linkExisted = FALSE /\ ok = FALSE
    /\ mklinkRc = NoExit /\ mklinkIssued = 0 /\ created = FALSE
    /\ runs = 1
    /\ envSteps = 0
    /\ repairedRun = 0
    /\ aliasIntact = FALSE
    /\ fs0 = <<brokenEntry, actualEntry>>
    /\ twin = NoTwin

ToolStep ==
    \/ ParseArgs
    \/ Diagnostics
    \/ get_cookiecutter_path
    \/ PreconditionCheck
    \/ NoOpCheck
    \/ DryRunCheck
    \/ CreateJunctionCheck
    \/ Mklink
    \/ CheckOk

Next ==
    \/ ToolStep
    \/ Invoke
    \/ EnvChangeExpected
    \/ EnvChangeActual

Spec == Init /\ [][Next]_vars

\* two invocations with the same command line on the same filesystem,
\* no other process interfering
NextTwin ==
    \/ ToolStep
    \/ InvokeTwin

SpecTwin == Init /\ [][NextTwin]_vars

TypeOK ==
    /\ brokenEntry \in BrokenEntries
    /\ actualEntry \in ActualEntries
    /\ branch \in Branches
    /\ exitStatus \in {NoExit, 0, 1, 2}
    /\ mklinkIssued \in 0..1

\* ---- properties ---------------------------------------------------------
\* a step of the running invocation (other processes never move pc)
Moved == pc # "done" /\ pc' # pc

\* the steps that come before the apply branch leave the filesystem alone
ChecksDoNotWrite ==
    (Moved /\ pc \in {"parse", "diag", "lookup", "precheck", "noop", "dryrun"})
        => UNCHANGED fs

\* C1, as stated: whenever Expected Path already exists (no other process
\* acting, whatever Actual Path is), the invocation exits 0 without mklink.
C1_Original ==
    (pc = "done" /\ argvForm = "ok" /\ envSteps = 0 /\ ~created
        /\ BrokenExists(brokenEntry, actualEntry))
    => (exitStatus = 0 /\ mklinkIssued = 0)

\* C1, amended: when Actual Path exists at the precondition check and
\* Expected Path exists at the no-op check, the invocation stops there with
\* status 0, whatever the apply flag; it never issues mklink and none of its
\* steps changes the filesystem.
C1_NoOpShortCircuit ==
    /\ [](branch = "noop" =>
            pc = "done" /\ exitStatus = 0 /\ mklinkIssued = 0 /\ ~created)
    /\ [][(Moved /\ pc = "noop" /\ BrokenExists(brokenEntry, actualEntry))
            => (branch' = "noop" /\ pc' = "done" /\ exitStatus' = 0)]_vars
    /\ [][ChecksDoNotWrite]_vars

C1_Witness ==
    /\ pc = "done" /\ branch = "noop" /\ apply
    /\ brokenEntry = "dir" /\ exitStatus = 0

\* C2: when Actual Path does not exist at the precondition check, the
\* invocation exits 1 there, whatever the apply flag and Expected Path; it
\* never issues mklink and none of its steps changes the filesystem.
C2_MissingActualIsFatal ==
    /\ [](branch = "missing" =>
            pc = "done" /\ exitStatus = 1 /\ mklinkIssued = 0 /\ ~created)
    /\ [][(Moved /\ pc = "precheck" /\ ~ActualExists(actualEntry))
            => (branch' = "missing" /\ pc' = "done" /\ exitStatus' = 1)]_vars
    /\ [][ChecksDoNotWrite]_vars

C2_Witness ==
    /\ pc = "done" /\ branch = "missing" /\ apply
    /\ brokenEntry = "dir" /\ actualEntry = "absent" /\ exitStatus = 1

\* C3: without --apply no step of the invocation changes what sits at
\* Expected Path or Actual Path, and mklink is never issued.
C3_DryRunNeverWrites ==
    /\ [](~apply => mklinkIssued = 0 /\ ~created /\ pc \notin {"cj_check", "mklink", "cj_ret"})
    /\ [][(Moved /\ ~apply) => UNCHANGED fs]_vars

C3_Witness ==
    /\ pc = "done" /\ ~apply /\ branch = "dryrun"
    /\ brokenEntry = "absent" /\ actualEntry = "dir" /\ exitStatus = 0

\* C4, as stated: with --apply, Actual Path present and Expected Path absent
\* at the start (no other process acting), the invocation ends with the
\* alias in place and status 0.
C4_Original ==
    (pc = "done" /\ argvForm = "ok" /\ apply /\ envSteps = 0
        /\ ActualExists(actualEntry) /\ (brokenEntry = "absent" \/ created))
    => (brokenEntry = "junction" /\ exitStatus = 0)

\* C4, amended: with --apply, once the mklink command has reported success
\* the alias from Expected Path to Actual Path is in place (it stays unless
\* another process changes it) and the invocation exits 0.
C4_ApplyCreatesAlias ==
    /\ [](mklinkRc = 0 =>
            /\ apply /\ branch = "apply" /\ ok /\ created
            /\ (aliasIntact => brokenEntry = "junction")
            /\ (pc = "done" => exitStatus = 0))
    /\ [][(Moved /\ pc = "mklink" /\ mklinkRc' = 0)
            => (brokenEntry = "absent" /\ brokenEntry' = "junction"
                /\ UNCHANGED actualEntry)]_vars

C4_Witness ==
    /\ pc = "done" /\ apply /\ mklinkRc = 0 /\ exitStatus = 0
    /\ brokenEntry = "junction" /\ actualEntry = "dir" /\ envSteps = 0

\* C5, as stated: when alias creation fails, also because another process
\* created Expected Path in between, the status is 1 and Expected Path does
\* not exist afterwards.
C5_Original ==
    (pc = "done" /\ branch = "apply" /\ ~ok)
    => (exitStatus = 1 /\ ~BrokenExists(brokenEntry, actualEntry))

\* C5, amended: when alias creation fails after both checks were passed, the
\* status is 1 and the invocation itself has put nothing at Expected Path:
\* no step of create_junction that ends in failure changes the filesystem.
C5_FailedApplyLeavesNothing ==
    /\ []((pc = "done" /\ branch = "apply" /\ ~ok) =>
            exitStatus = 1 /\ ~created /\ mklinkRc # 0)
    /\ [][(Moved /\ pc \in {"cj_check", "mklink", "cj_ret"} /\ ~ok')
            => UNCHANGED fs]_vars

C5_Witness ==
    /\ pc = "done" /\ branch = "apply" /\ ~ok /\ mklinkRc = 1
    /\ exitStatus = 1 /\ brokenEntry = "absent"

\* C6, as stated: every invocation ends with status 0 or 1, and 1 exactly
\* on a missing Actual Path or a failed alias creation.
C6_Original ==
    pc = "done" =>
        /\ exitStatus \in {0, 1}
        /\ (exitStatus = 1) <=> (branch = "missing" \/ (branch = "apply" /\ ~ok))

\* C6, amended: every invocation whose command line the argument parser
\* accepts ends with status 0 or 1, and 1 exactly when Actual Path was
\* missing at the precondition check or the apply branch was reached and
\* alias creation failed; a rejected command line ends with status 2.
C6_ExitCodes ==
    /\ [](pc = "done" =>
            /\ (argvForm = "bad") <=> (exitStatus = 2)
            /\ argvForm # "bad" =>
                /\ exitStatus \in {0, 1}
                /\ (exitStatus = 1) <=>
                     (branch = "missing"
                        \/ (branch = "apply" /\ (linkExisted \/ mklinkRc = 1))))
    /\ [][(Moved /\ pc = "precheck")
            => ((branch' = "missing") <=> ~ActualExists(actualEntry))]_vars
    /\ [][(Moved /\ pc = "dryrun") => ((branch' = "apply") <=> apply)]_vars

C6_Witness ==
    /\ pc = "done" /\ argvForm = "ok" /\ exitStatus = 1
    /\ branch = "apply" /\ mklinkRc = 1

\* C7: of two invocations with the same command line on the same filesystem
\* (and the same answer from mklink where both ask), one whose lookup of
\* cookiecutter succeeds and one whose lookup fails, both end with the same
\* exit status and the same change to the filesystem.
C7_LookupNeverMatters ==
    (pc = "done" /\ twin.set /\ twin.cookie # cookie
        /\ (twin.rc = mklinkRc \/ twin.rc = NoExit \/ mklinkRc = NoExit))
    => (exitStatus = twin.exit /\ created = twin.created
        /\ brokenEntry = twin.brokenEnd /\ mklinkRc = twin.rc)

C7_Witness ==
    /\ pc = "done" /\ twin.set /\ twin.cookie = "path" /\ cookie = "not found"
    /\ argvForm = "ok" /\ apply /\ exitStatus = 0 /\ created /\ twin.created

\* C8: one invocation issues mklink at most once, and a failed
\* create_junction is followed at once by exit status 1, never by another
\* attempt.
C8_NoRetry ==
    /\ [](mklinkIssued <= 1)
    /\ [][(Moved /\ pc = "cj_ret" /\ ~ok)
            => (pc' = "done" /\ exitStatus' = 1 /\ UNCHANGED mklinkIssued)]_vars
    /\ [][(Moved /\ pc = "mklink") => pc' = "cj_ret"]_vars

C8_Witness ==
    /\ pc = "done" /\ mklinkIssued = 1 /\ mklinkRc = 1 /\ exitStatus = 1

\* C9: when create_junction finds Expected Path present (created by another
\* process after main's no-op check found it absent), it returns False
\* without issuing mklink, leaves the entry as it is, and the invocation
\* exits 1.
C9_SecondCheck ==
    /\ [](linkExisted =>
            /\ branch = "apply" /\ ~ok /\ mklinkIssued = 0 /\ ~created
            /\ (pc = "done" => exitStatus = 1))
    /\ [][(Moved /\ pc = "cj_check" /\ BrokenExists(brokenEntry, actualEntry))
            => (linkExisted' /\ pc' = "cj_ret" /\ UNCHANGED fs)]_vars

C9_Witness ==
    /\ pc = "done" /\ linkExisted /\ exitStatus = 1 /\ mklinkIssued = 0
    /\ brokenEntry \in {"dir", "file"} /\ envSteps >= 1

\* C10: once an invocation has created the alias, a later invocation with an
\* accepted command line (with or without --apply), Actual Path still there
\* and nothing changed by other processes, takes the no-op branch: no mklink,
\* the alias still in place, status 0.
C10_RepairIsIdempotent ==
    (pc = "done" /\ argvForm = "ok" /\ aliasIntact /\ repairedRun >= 1
        /\ repairedRun < runs /\ ActualExists(actualEntry))
    => (branch = "noop" /\ exitStatus = 0 /\ mklinkIssued = 0
        /\ brokenEntry = "junction")

C10_Witness ==
    /\ pc = "done" /\ argvForm = "ok" /\ apply /\ aliasIntact
    /\ repairedRun = 1 /\ runs = 2 /\ branch = "noop" /\ exitStatus = 0
====
